---- MODULE Spec2Model ----
(***************************************************************************)
(* Model of scripts/update_calendar.py: one scheduled run fetches the      *)
(* source page, extracts the Bandcamp Friday dates (scrape_dates) and      *)
(* merges them into the persisted calendar file (update_ics_file).         *)
(*                                                                         *)
(* Text is modelled as a sequence of tokens.  A token is either one of     *)
(* the two line-ending characters (CR, LF) or a run of characters that     *)
(* contains neither of them (one line of the calendar).  A date is the     *)
(* integer whose decimal digits are the YYYYMMDD string.                   *)
(***************************************************************************)
EXTENDS Integers, Sequences, FiniteSets, TLC

(* ------------------------------ bounds --------------------------------- *)
MaxRuns == 3
MaxClock == 1
MaxItems == 2

(* ------------------------------ tokens --------------------------------- *)
Tok(k) == [k |-> k, d |-> 0]
CR == Tok("CR")
LF == Tok("LF")
CRLF == <<CR, LF>>
END_VCALENDAR == Tok("END:VCALENDAR")
BEGIN_VEVENT == Tok("BEGIN:VEVENT")
END_VEVENT == Tok("END:VEVENT")
\* the text "UID:bandcamp-friday-<d>@github.com"
UidTok(d) == [k |-> "UID:bandcamp-friday-@github.com", d |-> d]

Range(s) == {s[i] : i \in 1..Len(s)}

RECURSIVE ConcatRange(_, _, _)
\* parts[lo] + ... + parts[hi], by halves
ConcatRange(parts, lo, hi) ==
    IF lo > hi THEN <<>>
    ELSE IF lo = hi THEN parts[lo]
    ELSE LET mid == (lo + hi) \div 2
         IN  ConcatRange(parts, lo, mid) \o ConcatRange(parts, mid + 1, hi)

\* ''.join(parts)
Concat(parts) == ConcatRange(parts, 1, Len(parts))

\* sep.join(parts)
Join(sep, parts) ==
    Concat([i \in 1..Len(parts) |-> IF i = 1 THEN parts[i] ELSE sep \o parts[i]])

\* a triple-quoted literal whose lines all end in "\r" + newline
Lines(toks) == Concat([i \in 1..Len(toks) |-> <<toks[i]>> \o CRLF])

\* str.replace(old, new), old being one token: every occurrence is replaced
str_replace(s, old, new) ==
    Concat([i \in 1..Len(s) |-> IF s[i] = old THEN new ELSE <<s[i]>>])

(* ------------------------------ file I/O ------------------------------- *)
\* f.read() of a file opened with open(ICS_FILE, 'r'): text mode with
\* universal newlines, "\r\n" and a lone "\r" are both read as "\n"
TextRead(bytes) ==
    Concat([i \in 1..Len(bytes) |->
              IF bytes[i] = CR THEN <<LF>>
              ELSE IF bytes[i] = LF /\ i > 1 /\ bytes[i - 1] = CR THEN <<>>
              ELSE <<bytes[i]>>])

\* f.write(text) on a file opened with open(ICS_FILE, 'w'): text mode on a
\* POSIX host, where "\n" is written as os.linesep = "\n" and "\r" as it is
TextWrite(text) == text

Absent == [exists |-> FALSE, bytes |-> <<>>]
File(bytes) == [exists |-> TRUE, bytes |-> bytes]

\* re.findall(r'UID:(bandcamp-friday-\d{8}@github\.com)', content)
uid_findall(content) ==
    SelectSeq(content, LAMBDA t : t.k = UidTok(0).k)

\* read_existing_ics(): (content, existing_uids), or (None, []) when the
\* file does not exist
read_existing_ics(file) ==
    IF file.exists
    THEN LET content == TextRead(file.bytes)
         IN  [none |-> FALSE, content |-> content,
              existing_uids |-> uid_findall(content)]
    ELSE [none |-> TRUE, content |-> <<>>, existing_uids |-> <<>>]

(* --------------------------- entry formatter --------------------------- *)
\* datetime.strptime(date_str, '%Y%m%d')
strptime_ymd(date_str) ==
    [year |-> date_str \div 10000,
     month |-> (date_str \div 100) % 100,
     day |-> date_str % 100]

\* dt.strftime('%Y%m%d')
strftime_ymd(dt) == dt.year * 10000 + dt.month * 100 + dt.day

\* generate_vevent(date_str) at wall-clock time clock: the block has CRLF
\* between its lines and none after END:VEVENT
generate_vevent(date_str, clock) ==
    LET dt == strptime_ymd(date_str)
    IN  Join(CRLF,
          << <<BEGIN_VEVENT>>,
             <<UidTok(date_str)>>,
             <<[k |-> "DTSTAMP:", d |-> clock]>>,
             <<[k |-> "DTSTART;TZID=America/Los_Angeles:T000000",
                d |-> strftime_ymd(dt)]>>,
             <<[k |-> "DTEND;TZID=America/Los_Angeles:T235959",
                d |-> strftime_ymd(dt)]>>,
             <<Tok("SUMMARY:Bandcamp Friday")>>,
             <<Tok("DESCRIPTION:Bandcamp waives its revenue share on this day. Support artists")>>,
             <<Tok(" directly!\\n\\nhttps://isitbandcampfriday.com/")>>,
             <<Tok("URL:https://isitbandcampfriday.com/")>>,
             <<Tok("STATUS:CONFIRMED")>>,
             <<Tok("TRANSP:TRANSPARENT")>>,
             <<END_VEVENT>> >>)

\* the header literal of update_ics_file
header ==
    Lines(<< Tok("BEGIN:VCALENDAR"),
             Tok("VERSION:2.0"),
             Tok("PRODID:-//Bandcamp Friday Calendar//EN"),
             Tok("CALSCALE:GREGORIAN"),
             Tok("METHOD:PUBLISH"),
             Tok("X-WR-CALNAME:Bandcamp Friday"),
             Tok("X-WR-TIMEZONE:America/Los_Angeles"),
             Tok("X-WR-CALDESC:Bandcamp Friday - when Bandcamp waives its revenue share"),
             Tok("BEGIN:VTIMEZONE"),
             Tok("TZID:America/Los_Angeles"),
             Tok("BEGIN:DAYLIGHT"),
             Tok("TZOFFSETFROM:-0800"),
             Tok("TZOFFSETTO:-0700"),
             Tok("DTSTART:19700308T020000"),
             Tok("RRULE:FREQ=YEARLY;BYMONTH=3;BYDAY=2SU"),
             Tok("TZNAME:PDT"),
             Tok("END:DAYLIGHT"),
             Tok("BEGIN:STANDARD"),
             Tok("TZOFFSETFROM:-0700"),
             Tok("TZOFFSETTO:-0800"),
             Tok("DTSTART:19701101T020000"),
             Tok("RRULE:FREQ=YEARLY;BYMONTH=11;BYDAY=1SU"),
             Tok("TZNAME:PST"),
             Tok("END:STANDARD"),
             Tok("END:VTIMEZONE") >>)

(* -------------------------------- merger ------------------------------- *)
\* existing_dates: re.search(r'bandcamp-friday-(\d{8})', uid).group(1) of
\* every uid found
existing_dates(existing_uids) ==
    {existing_uids[i].d : i \in 1..Len(existing_uids)}

\* dates_to_add without its filter: every date of the call is taken as new
dates_to_add_unfiltered(new_dates, existing) == new_dates

\* dates_to_add = [d for d in new_dates if d not in existing_dates]
dates_to_add(new_dates, existing) ==
    SelectSeq(new_dates, LAMBDA d : d \notin existing)

\* '\r\n'.join(generate_vevent(d) for d in dates)
events(dates, clock) ==
    Join(CRLF, [i \in 1..Len(dates) |-> generate_vevent(dates[i], clock)])

\* the branch "if content:" of update_ics_file: new events go before
\* END:VCALENDAR
append_content(content, to_add, clock) ==
    str_replace(content, END_VCALENDAR,
                CRLF \o events(to_add, clock) \o CRLF \o <<END_VCALENDAR>>)

\* a new calendar that lacks its END:VCALENDAR line
create_content_unterminated(new_dates, clock) ==
    header \o events(new_dates, clock) \o CRLF

\* the branch "else:" of update_ics_file: a new calendar from scratch
create_content(new_dates, clock) ==
    header \o events(new_dates, clock) \o CRLF \o <<END_VCALENDAR>> \o CRLF

\* update_ics_file(new_dates) run on the persisted file at time clock:
\* the file it leaves, the number of calls of f.write, and the dates
\* generate_vevent was called with, in the order of the calls
update_ics_file(new_dates, file, clock) ==
    LET r == read_existing_ics(file)
        existing == existing_dates(r.existing_uids)
        to_add == dates_to_add(new_dates, existing)
    IN  IF to_add = <<>>
        THEN [file |-> file, writes |-> 0, generated |-> <<>>]
        ELSE LET new_content ==
                     IF ~r.none /\ r.content # <<>>
                     THEN append_content(r.content, to_add, clock)
                     ELSE create_content(new_dates, clock)
             IN  [file |-> File(TextWrite(new_content)), writes |-> 1,
                  generated |-> IF ~r.none /\ r.content # <<>>
                                THEN to_add ELSE new_dates]

(* ------------------------------ extractor ------------------------------ *)
\* the month names '%b' accepts, in calendar order
MonthNames ==
    <<"Jan", "Feb", "Mar", "Apr", "May", "Jun",
      "Jul", "Aug", "Sep", "Oct", "Nov", "Dec">>

IsLeap(y) == (y % 4 = 0 /\ y % 100 # 0) \/ y % 400 = 0

DaysInMonth(y, m) ==
    IF m = 2 THEN (IF IsLeap(y) THEN 29 ELSE 28)
    ELSE IF m \in {4, 6, 9, 11} THEN 30 ELSE 31

\* A timestamp string of the payload.  matches: the string has the shape
\* "<weekday>, <day> <month> <year> <hh>:00:00 -0000"; when it has not, it
\* is some other text (the remaining fields are then unused).
DateStr(day, mon, year, hour) ==
    [matches |-> TRUE, day |-> day, mon |-> mon, year |-> year, hour |-> hour]
OtherText == [matches |-> FALSE, day |-> 0, mon |-> "", year |-> 0, hour |-> 0]

\* datetime.strptime(date_str, '%a, %d %b %Y %H:%M:%S %z'): the parsed
\* date, or ok = FALSE where strptime raises ValueError
strptime_rfc(date_str) ==
    IF ~date_str.matches \/ date_str.mon \notin Range(MonthNames)
    THEN [ok |-> FALSE, year |-> 0, month |-> 0, day |-> 0]
    ELSE LET m == CHOOSE i \in 1..12 : MonthNames[i] = date_str.mon
         IN  IF /\ date_str.day >= 1
                /\ date_str.day <= DaysInMonth(date_str.year, m)
                /\ date_str.hour \in 0..23
             THEN [ok |-> TRUE, year |-> date_str.year, month |-> m,
                   day |-> date_str.day]
             ELSE [ok |-> FALSE, year |-> 0, month |-> 0, day |-> 0]

\* An item of the decoded payload: a JSON object, with or without a 'date'
\* member, or a JSON value of another type (a number).
ObjectItem(date_str) == [shape |-> "object", has_date |-> TRUE, date |-> date_str]
NoDateItem == [shape |-> "object", has_date |-> FALSE, date |-> OtherText]
NumberItem == [shape |-> "number", has_date |-> FALSE, date |-> OtherText]

\* the body of "for fundraiser in fundraisers" for one item: what the
\* inner try/except does with it.
\*   "append"   the date was parsed (and is appended unless already there)
\*   "continue" the inner handler caught the exception and printed
\*   "raise"    the inner handler itself raised: fundraiser.get is called
\*              on a value that has no get (AttributeError)
item_outcome(fundraiser) ==
    IF fundraiser.shape # "object" THEN "raise"
    ELSE IF ~fundraiser.has_date THEN "continue"
    ELSE IF ~strptime_rfc(fundraiser.date).ok THEN "continue"
    ELSE "append"

RECURSIVE scrape_loop(_, _)
\* the for loop of scrape_dates from the list dates accumulated so far:
\* the list at the end of the loop, or raised = TRUE when an exception
\* left the loop
scrape_loop(fundraisers, dates) ==
    IF fundraisers = <<>> THEN [raised |-> FALSE, dates |-> dates]
    ELSE LET fundraiser == Head(fundraisers)
             outcome == item_outcome(fundraiser)
             date_formatted == strftime_ymd(strptime_rfc(fundraiser.date))
         IN  IF outcome = "raise" THEN [raised |-> TRUE, dates |-> <<>>]
             ELSE IF outcome = "continue"
                  THEN scrape_loop(Tail(fundraisers), dates)
             ELSE IF date_formatted \in Range(dates)
                  THEN scrape_loop(Tail(fundraisers), dates)
             ELSE scrape_loop(Tail(fundraisers), Append(dates, date_formatted))

RECURSIVE SortSet(_)
SortSet(S) ==
    IF S = {} THEN <<>>
    ELSE LET m == CHOOSE x \in S : \A y \in S : x <= y
         IN  <<m>> \o SortSet(S \ {m})

\* the list as the loop accumulated it, not sorted
sorted_set_unsorted(dates) == dates

\* sorted(set(dates))
sorted_set(dates) == SortSet(Range(dates))

\* What the fetch gave: kind says how far scrape_dates gets before the
\* for loop, fundraisers is the decoded payload when it is an array.
Response(kind, fundraisers) == [kind |-> kind, fundraisers |-> fundraisers]

\* requests.get raises, raise_for_status raises, the anchor or its
\* attribute is missing, json.loads raises, the payload is not iterable
FailureKinds ==
    {"network_error", "timeout", "http_error", "no_anchor", "no_attribute",
     "invalid_json", "json_number"}

\* scrape_dates(): the list it returns for a response
scrape_dates(response) ==
    IF response.kind \in {"network_error", "timeout"} THEN <<>>
    ELSE IF response.kind = "http_error" THEN <<>>
    ELSE IF response.kind \in {"no_anchor", "no_attribute"} THEN <<>>
    ELSE IF response.kind = "invalid_json" THEN <<>>
    ELSE IF response.kind = "json_number" THEN <<>>
    ELSE LET loop == scrape_loop(response.fundraisers, <<>>)
         IN  IF loop.raised THEN <<>> ELSE sorted_set(loop.dates)

(* ------------------------------- inputs -------------------------------- *)
\* the timestamps a payload item may carry: two Fridays, one of them at two
\* times of day, a text that is no timestamp, and the 31st of February
DateStrs ==
    {DateStr(3, "Oct", 2025, 7), DateStr(3, "Oct", 2025, 8),
     DateStr(3, "Jan", 2025, 8), OtherText, DateStr(31, "Feb", 2025, 8)}

Items == {ObjectItem(s) : s \in DateStrs} \cup {NoDateItem, NumberItem}

SeqsUpTo(S, n) == UNION {[1..k -> S] : k \in 0..n}

Responses ==
    {Response(k, <<>>) : k \in FailureKinds}
    \cup {Response("json_array", f) : f \in SeqsUpTo(Items, MaxItems)}

NoResponse == Response("none", <<>>)

\* text whose lines all end in the line ending eol
LinesWith(toks, eol) == Concat([i \in 1..Len(toks) |-> <<toks[i]>> \o eol])

\* the lines of a calendar with a custom PRODID, a time-zone block and one
\* event, of date d
CustomLines(d) ==
    << Tok("BEGIN:VCALENDAR"), Tok("VERSION:2.0"),
       Tok("PRODID:-//Custom Producer//EN"),
       Tok("BEGIN:VTIMEZONE"), Tok("TZID:America/Los_Angeles"),
       Tok("END:VTIMEZONE"),
       BEGIN_VEVENT, UidTok(d), END_VEVENT,
       END_VCALENDAR >>

\* such a calendar written with LF line endings, and one written with CRLF
LfCalendar == LinesWith(CustomLines(20250207), <<LF>>)
CrlfCalendar == LinesWith(CustomLines(20250103), CRLF)

\* a calendar with mixed line endings whose events are out of order
MixedCalendar ==
    <<Tok("BEGIN:VCALENDAR"), LF>>
    \o LinesWith(<< Tok("VERSION:2.0"), Tok("BEGIN:VTIMEZONE"),
                    Tok("TZID:America/Los_Angeles"), Tok("END:VTIMEZONE"),
                    BEGIN_VEVENT, UidTok(20250207), END_VEVENT,
                    BEGIN_VEVENT, UidTok(20250103), END_VEVENT >>, CRLF)
    \o <<END_VCALENDAR, LF>>

\* a calendar cut short before its END:VCALENDAR line
TruncatedCalendar ==
    LinesWith(<< Tok("BEGIN:VCALENDAR"), Tok("VERSION:2.0"),
                 BEGIN_VEVENT, UidTok(20250103), END_VEVENT >>, <<LF>>)

\* a stream of two calendar objects, the second one holding an event
TwoCalendars ==
    LinesWith(<< Tok("BEGIN:VCALENDAR"), Tok("VERSION:2.0"), END_VCALENDAR,
                 Tok("BEGIN:VCALENDAR"), Tok("VERSION:2.0"),
                 BEGIN_VEVENT, UidTok(20250103), END_VEVENT,
                 END_VCALENDAR >>, <<LF>>)

\* what a first run may find under ICS_FILE: no file, an empty file, or one
\* of the calendars above
InitialFiles ==
    {Absent, File(<<>>), File(LfCalendar), File(CrlfCalendar),
     File(MixedCalendar), File(TruncatedCalendar), File(TwoCalendars)}

(* -------------------------------- state -------------------------------- *)
VARIABLES
    ics_file,       \* the file ICS_FILE: whether it exists, and its bytes
    clock,          \* datetime.now, in ticks
    pc,             \* where the script is: "start", "scraped"; "call" and
                    \* "returned" for a lone call of scrape_dates
    response,       \* the response a lone call of scrape_dates works on
    dates,          \* the list scrape_dates returned
    outcome,        \* the kind of the response of the last fetch
    runs,           \* the number of runs started
    merge_called,   \* the current run has called update_ics_file
    writes,         \* the number of f.write calls of the current run
    pre_file,       \* ics_file when the current run started
    prev_called,    \* merge_called of the run before
    prev_dates,     \* dates of the run before
    generated       \* the dates generate_vevent was called with in the
                    \* current run, in the order of the calls

vars ==
    <<ics_file, clock, pc, response, dates, outcome, runs, merge_called,
      writes, pre_file, prev_called, prev_dates, generated>>

TypeOK ==
    /\ ics_file.exists \in BOOLEAN
    /\ clock \in 0..MaxClock
    /\ pc \in {"start", "scraped", "call", "returned"}
    /\ runs \in 0..MaxRuns
    /\ merge_called \in BOOLEAN
    /\ writes \in 0..1

Init ==
    /\ ics_file \in InitialFiles
    /\ clock = 0
    /\ pc = "start"
    /\ response = NoResponse
    /\ dates = <<>>
    /\ outcome = "none"
    /\ runs = 0
    /\ merge_called = FALSE
    /\ writes = 0
    /\ pre_file = ics_file
    /\ prev_called = FALSE
    /\ prev_dates = <<>>
    /\ generated = <<>>

\* the main block without its test of dates
should_update_always(scraped) == TRUE

\* "if dates:" of the main block
should_update(scraped) == scraped # <<>>

\* dates = scrape_dates(): a run starts and fetches the page
Fetch ==
    /\ pc = "start"
    /\ runs < MaxRuns
    /\ \E resp \in Responses :
          /\ dates' = scrape_dates(resp)
          /\ outcome' = resp.kind
    /\ pc' = "scraped"
    /\ runs' = runs + 1
    /\ prev_called' = merge_called
    /\ prev_dates' = dates
    /\ merge_called' = FALSE
    /\ writes' = 0
    /\ generated' = <<>>
    /\ pre_file' = ics_file
    /\ UNCHANGED <<ics_file, clock, response>>

\* "if dates: update_ics_file(dates)": the run merges and ends
MainUpdate ==
    /\ pc = "scraped"
    /\ should_update(dates)
    /\ LET r == update_ics_file(dates, ics_file, clock)
       IN  /\ ics_file' = r.file
           /\ writes' = r.writes
           /\ generated' = r.generated
    /\ merge_called' = TRUE
    /\ pc' = "start"
    /\ UNCHANGED <<clock, response, dates, outcome, runs, pre_file,
                   prev_called, prev_dates>>

\* "else: print(No dates found ...)": the run ends without a merge
MainNoDates ==
    /\ pc = "scraped"
    /\ ~should_update(dates)
    /\ pc' = "start"
    /\ UNCHANGED <<ics_file, clock, response, dates, outcome, runs,
                   merge_called, writes, pre_file, prev_called, prev_dates,
                   generated>>

\* the wall clock read by datetime.now advances
Tick ==
    /\ clock < MaxClock
    /\ clock' = clock + 1
    /\ UNCHANGED <<ics_file, pc, response, dates, outcome, runs,
                   merge_called, writes, pre_file, prev_called, prev_dates,
                   generated>>

Next == Fetch \/ MainUpdate \/ MainNoDates \/ Tick

Spec == Init /\ [][Next]_vars

(* A lone call of scrape_dates on every response of the input set. *)
InitScrape ==
    /\ ics_file = Absent
    /\ clock = 0
    /\ pc = "call"
    /\ response \in Responses
    /\ dates = <<>>
    /\ outcome = "none"
    /\ runs = 0
    /\ merge_called = FALSE
    /\ writes = 0
    /\ pre_file = ics_file
    /\ prev_called = FALSE
    /\ prev_dates = <<>>
    /\ generated = <<>>

ScrapeDates ==
    /\ pc = "call"
    /\ dates' = scrape_dates(response)
    /\ outcome' = response.kind
    /\ pc' = "returned"
    /\ UNCHANGED <<ics_file, clock, response, runs, merge_called, writes,
                   pre_file, prev_called, prev_dates, generated>>

NextScrape == ScrapeDates

SpecScrape == InitScrape /\ [][NextScrape]_vars

(* ------------------------ reading a document -------------------------- *)
\* the dates recovered from the identifiers of the persisted document
IdentifierDates(file) == existing_dates(read_existing_ics(file).existing_uids)

\* the identifiers of the persisted bytes, in document order
Identifiers(bytes) == SelectSeq(bytes, LAMBDA t : t.k = UidTok(0).k)

Count(s, t) == Cardinality({i \in 1..Len(s) : s[i] = t})

NoRepeats(s) == \A i, j \in 1..Len(s) : s[i] = s[j] => i = j

StrictlyAscending(s) == \A i, j \in 1..Len(s) : i < j => s[i] < s[j]

\* the entry blocks of the bytes, in document order: each runs from a
\* BEGIN:VEVENT to the first END:VEVENT after it, line endings included
EntryBlocks(bytes) ==
    LET starts == {i \in 1..Len(bytes) :
                      /\ bytes[i] = BEGIN_VEVENT
                      /\ \E j \in i..Len(bytes) : bytes[j] = END_VEVENT}
        stop(i) == CHOOSE j \in i..Len(bytes) :
                      /\ bytes[j] = END_VEVENT
                      /\ \A k \in i..(j - 1) : bytes[k] # END_VEVENT
        order == SortSet(starts)
    IN  [n \in 1..Len(order) |-> SubSeq(bytes, order[n], stop(order[n]))]

\* the run that has just ended called update_ics_file(dates)
Merged == pc = "start" /\ merge_called

\* the dates of that call which the document did not hold before
NewDates == dates_to_add(dates, IdentifierDates(pre_file))

(* ------------------------------- claims -------------------------------- *)

Idempotence ==
    (Merged /\ prev_called /\ dates = prev_dates)
    => writes = 0 /\ ics_file = pre_file

\* C3: after a merge the dates recovered from the identifiers of the
\* document are those recovered before it together with the dates merged.
UnionProperty ==
    Merged => IdentifierDates(ics_file) = IdentifierDates(pre_file) \cup Range(dates)

\* C4: a merge that adds dates to a loaded document leaves the bytes before
\* the terminator and the terminator with what follows it as they were, and
\* puts between them one entry per new date and no other entry.
Preservation ==
    (Merged /\ pre_file.exists /\ pre_file.bytes # <<>> /\ NewDates # <<>>)
    => LET old == pre_file.bytes
           new == ics_file.bytes
           grown == Len(new) - Len(old)
       IN  /\ END_VCALENDAR \in Range(old)
           /\ grown > 0
           /\ LET at == CHOOSE i \in 1..Len(old) :
                           /\ old[i] = END_VCALENDAR
                           /\ \A k \in 1..(i - 1) : old[k] # END_VCALENDAR
                  inserted == SubSeq(new, at, at + grown - 1)
              IN  /\ SubSeq(new, 1, at - 1) = SubSeq(old, 1, at - 1)
                  /\ SubSeq(new, at + grown, Len(new)) = SubSeq(old, at, Len(old))
                  /\ Count(inserted, BEGIN_VEVENT) = Len(NewDates)
                  /\ Count(inserted, END_VEVENT) = Len(NewDates)
                  /\ [i \in 1..Len(Identifiers(inserted)) |->
                         Identifiers(inserted)[i].d] = NewDates

\* C5: a merge that finds no document writes the preamble, then one entry
\* per date of the call in ascending order, then the terminator.
CreationFromScratch ==
    (Merged /\ ~pre_file.exists)
    => /\ writes = 1
       /\ ics_file.exists
       /\ LET bytes == ics_file.bytes
              blocks == EntryBlocks(bytes)
          IN  /\ Len(blocks) = Len(dates)
              /\ StrictlyAscending(dates)
              /\ \A n \in 1..Len(blocks) :
                    /\ Identifiers(blocks[n]) = <<UidTok(dates[n])>>
                    /\ Count(blocks[n], BEGIN_VEVENT) = 1
              /\ bytes = header
                         \o Concat([n \in 1..Len(blocks) |-> blocks[n] \o CRLF])
                         \o <<END_VCALENDAR>> \o CRLF

CreationWitness ==
    /\ Merged
    /\ ~pre_file.exists
    /\ Len(dates) >= 2
    /\ Len(EntryBlocks(ics_file.bytes)) = Len(dates)

\* C6: no identifier occurs twice in the persisted document.
NoDuplicateIdentifiers ==
    ics_file.exists => NoRepeats(Identifiers(ics_file.bytes))

\* C7: every entry of the persisted document is still in it, as it was,
\* after every step.
AppendOnly ==
    [][Range(EntryBlocks(ics_file.bytes)) \subseteq Range(EntryBlocks(ics_file'.bytes))]_vars

\* C8: when the fetch fails, the anchor is missing or the payload cannot be
\* decoded, scrape_dates returns the empty list, the run does not call the
\* merge and does not write, and the document stays as it was.
ClaimedFailures ==
    {"network_error", "timeout", "http_error", "no_anchor", "no_attribute",
     "invalid_json"}

FetchFailureNoOp ==
    outcome \in ClaimedFailures
    => /\ dates = <<>>
       /\ ~merge_called
       /\ writes = 0
       /\ ics_file = pre_file

FetchFailureWitness ==
    /\ outcome \in ClaimedFailures
    /\ pc = "start"
    /\ runs >= 2
    /\ ics_file.exists
    /\ ics_file.bytes # <<>>

\* the dates of the items that are objects with a timestamp that parses
WellFormedDates(fundraisers) ==
    {strftime_ymd(strptime_rfc(fundraisers[i].date)) :
        i \in {n \in 1..Len(fundraisers) :
                  /\ fundraisers[n].shape = "object"
                  /\ fundraisers[n].has_date
                  /\ strptime_rfc(fundraisers[n].date).ok}}

\* C9: for a payload that is a sequence of items, scrape_dates returns the
\* sorted set of the dates of the well-formed items, whatever the other
\* items are.
ItemFaultIsolation ==
    (pc = "returned" /\ response.kind = "json_array")
    => dates = SortSet(WellFormedDates(response.fundraisers))

\* C10: the list scrape_dates returns is strictly ascending, so it holds
\* each date once.
ExtractorOutputShape ==
    pc = "returned" => StrictlyAscending(dates) /\ NoRepeats(dates)

ExtractorOutputWitness ==
    /\ pc = "returned"
    /\ Len(response.fundraisers) = 2
    /\ Len(dates) = 2
    /\ item_outcome(response.fundraisers[1]) = "append"
    /\ item_outcome(response.fundraisers[2]) = "append"
    /\ strftime_ymd(strptime_rfc(response.fundraisers[1].date))
         > strftime_ymd(strptime_rfc(response.fundraisers[2].date))

\* the identifiers of the document are not in ascending order of date
OutOfOrder(file) ==
    LET uids == Identifiers(file.bytes)
    IN  \E i, j \in 1..Len(uids) : i < j /\ uids[i].d > uids[j].d

\* C11: a merge into an existing document generates an entry for every
\* date of its input, in the order of the input, the dates the document
\* already holds included; when the entries of the document are out of
\* order and it holds every date of the input, the merge still writes the
\* file, once.
SortsOnUpdate ==
    (Merged /\ pre_file.exists /\ pre_file.bytes # <<>>)
    => /\ generated = dates
       /\ (OutOfOrder(pre_file) /\ Range(dates) \subseteq IdentifierDates(pre_file))
          => writes = 1

\* every line ending of the bytes is CR LF, and the bytes end with one
UsesCrlf(bytes) ==
    /\ \A i \in 1..Len(bytes) :
          /\ bytes[i] = LF => (i > 1 /\ bytes[i - 1] = CR)
          /\ bytes[i] = CR => (i < Len(bytes) /\ bytes[i + 1] = LF)
    /\ Len(bytes) >= 2
    /\ bytes[Len(bytes)] = LF

\* C12: every document update_ics_file writes has CRLF for all of its line
\* endings and ends with CRLF.
LineEndingNormalisation ==
    (Merged /\ writes = 1) => UsesCrlf(ics_file.bytes)

(* --------------------------- storage failure --------------------------- *)
\* open(ICS_FILE, 'w') empties the file before f.write is called; when the
\* write fails (OSError) or the process is stopped, the file keeps the
\* bytes that had reached it: none, the first half, or all but the last
CutPoints(len) == {0, len \div 2, len - 1}

\* "if dates: update_ics_file(dates)" with a write that does not complete:
\* the exception leaves update_ics_file and ends the run
MainUpdateInterrupted ==
    /\ pc = "scraped"
    /\ should_update(dates)
    /\ LET r == update_ics_file(dates, ics_file, clock)
       IN  /\ r.writes = 1
           /\ \E n \in CutPoints(Len(r.file.bytes)) :
                 ics_file' = File(SubSeq(r.file.bytes, 1, n))
           /\ writes' = r.writes
           /\ generated' = r.generated
    /\ merge_called' = TRUE
    /\ pc' = "start"
    /\ UNCHANGED <<clock, response, dates, outcome, runs, pre_file,
                   prev_called, prev_dates>>

NextCrash == Fetch \/ MainUpdate \/ MainUpdateInterrupted \/ MainNoDates \/ Tick

SpecCrash == Init /\ [][NextCrash]_vars

\* C13: after a run, also one whose write did not complete, the file is
\* either the document the run found or the complete document the merge
\* builds from it, never an empty or a partial one.
AtomicSave ==
    (pc = "start" /\ runs >= 1)
    => \/ ics_file = pre_file
       \/ \E c \in 0..MaxClock :
             ics_file = update_ics_file(dates, pre_file, c).file

====
